---- MODULE Spec2Model ----
(***************************************************************************)
(* A model of asciifer (src/asciifer.py): one run of main(), that is the  *)
(* construction of ImageToASCII followed by convert_to_ascii_by_blocks.   *)
(*                                                                         *)
(* The brightness pipeline of the program works on numpy float32 arrays.  *)
(* The model keeps that width: a float32 is the pair <<m, e>> standing    *)
(* for m * 2^e with m = 0 or 2^23 <= m < 2^24, and every arithmetic step  *)
(* rounds to nearest, ties to even, as IEEE 754 binary32 does.  All       *)
(* values of the pipeline are non-negative and far from the subnormal     *)
(* range, so neither a sign nor subnormals are represented.               *)
(***************************************************************************)
EXTENDS Integers, Sequences, FiniteSets

(***************************************************************************)
(* float32 arithmetic                                                      *)
(***************************************************************************)
Mant == 24
Two23 == 8388608
Two24 == 16777216
Two12 == 4096

Zero32 == <<0, 0>>

RECURSIVE BitLen(_)
BitLen(x) == IF x = 0 THEN 0 ELSE 1 + BitLen(x \div 2)

\* x / 2^s rounded to the nearest integer, ties to even
RoundShift(x, s) ==
    IF s = 0 THEN x
    ELSE LET q == x \div (2^s)
             r == x % (2^s)
             h == 2^(s - 1)
         IN  IF r > h \/ (r = h /\ q % 2 = 1) THEN q + 1 ELSE q

\* the float32 nearest to the exact value x * 2^e (0 <= x < 2^31)
F32(x, e) ==
    IF x = 0 THEN Zero32
    ELSE LET n == BitLen(x) IN
         IF n <= Mant THEN <<x * 2^(Mant - n), e - (Mant - n)>>
         ELSE LET s == n - Mant
                  q == RoundShift(x, s)
              IN  IF q = Two24 THEN <<Two23, e + s + 1>> ELSE <<q, e + s>>

FromInt(n) == F32(n, 0)

\* a <= b for two float32
Leq32(a, b) ==
    IF a[1] = 0 THEN TRUE
    ELSE IF b[1] = 0 THEN FALSE
    ELSE a[2] < b[2] \/ (a[2] = b[2] /\ a[1] <= b[1])

\* float32 addition: the smaller operand is aligned with six guard bits and
\* a sticky bit, which decides the rounding exactly
Add32(a, b) ==
    IF a[1] = 0 THEN b
    ELSE IF b[1] = 0 THEN a
    ELSE LET hi == IF a[2] >= b[2] THEN a ELSE b
             lo == IF a[2] >= b[2] THEN b ELSE a
             d  == hi[2] - lo[2]
             sh == lo[1] * 64
             t  == IF d > 30 THEN 0 ELSE sh \div (2^d)
             st == IF d > 30 THEN 1 ELSE IF sh % (2^d) # 0 THEN 1 ELSE 0
             tt == IF t % 2 = 0 THEN t + st ELSE t
         IN  F32(hi[1] * 64 + tt, hi[2] - 6)

\* the exact product of two 24-bit naturals as <<high, low>> in base 2^24
Mul24(a, b) ==
    LET a1 == a \div Two12
        a0 == a % Two12
        b1 == b \div Two12
        b0 == b % Two12
        mid == a1 * b0 + a0 * b1
        lo == a0 * b0 + (mid % Two12) * Two12
    IN  <<a1 * b1 + mid \div Two12 + lo \div Two24, lo % Two24>>

\* <<h1, l1>> <= <<h2, l2>> for two naturals in base 2^24
WideLeq(p, q) == p[1] < q[1] \/ (p[1] = q[1] /\ p[2] <= q[2])

\* float32 multiplication
Mul32(a, b) ==
    IF a[1] = 0 \/ b[1] = 0 THEN Zero32
    ELSE LET p == Mul24(a[1], b[1])
             big == p[1] >= Two23
             q == IF big THEN p[1] ELSE p[1] * 2 + p[2] \div Two23
             r == IF big THEN p[2] ELSE p[2] % Two23
             h == IF big THEN Two23 ELSE Two23 \div 2
             e == a[2] + b[2] + (IF big THEN 24 ELSE 23)
             up == r > h \/ (r = h /\ q % 2 = 1)
             m == IF up THEN q + 1 ELSE q
         IN  IF m = Two24 THEN <<Two23, e + 1>> ELSE <<m, e>>

\* the largest r with r * r <= x, found bit by bit from bit i down
RECURSIVE ISqrt(_, _, _)
ISqrt(x, r, i) ==
    IF i < 0 THEN r
    ELSE LET c == r + 2^i
             n == IF WideLeq(Mul24(c, c), x) THEN c ELSE r
         IN  IF n >= 0 THEN ISqrt(x, n, i - 1) ELSE 0

\* float32 square root, correctly rounded
Sqrt32(a) ==
    IF a[1] = 0 THEN Zero32
    ELSE LET k == IF (a[2] - 24) % 2 = 0 THEN 24 ELSE 23
             x == IF k = 24 THEN <<a[1], 0>>
                  ELSE <<a[1] \div 2, (a[1] % 2) * Two23>>
             r == ISqrt(x, 0, 23)
             sq == Mul24(r, r)
             lo == sq[2] + r
             mid == <<sq[1] + lo \div Two24, lo % Two24>>
             m == IF WideLeq(x, mid) THEN r ELSE r + 1
             e == (a[2] - k) \div 2
         IN  IF m = Two24 THEN <<Two23, e + 1>> ELSE <<m, e>>

\* long division of q * d + r by d, one more quotient bit at a time, until
\* the quotient has 26 bits; the result is <<quotient, remainder, exponent>>
RECURSIVE DivSteps(_, _, _, _)
DivSteps(q, r, d, e) ==
    IF q >= 2 * Two24 THEN <<q, r, e>>
    ELSE DivSteps(2 * q + (2 * r) \div d, (2 * r) % d, d, e - 1)

\* float32 division by the positive integer d
Div32(a, d) ==
    IF a[1] = 0 THEN Zero32
    ELSE LET s == DivSteps(a[1] \div d, a[1] % d, d, a[2])
             q == IF s[2] # 0 /\ s[1] % 2 = 0 THEN s[1] + 1 ELSE s[1]
         IN  F32(q, s[3])

\* astype(np.int32) of a non-negative float32: truncation
Trunc32(a) ==
    IF a[1] = 0 THEN 0
    ELSE IF a[2] >= 0 THEN a[1] * 2^(a[2])
    ELSE IF 0 - a[2] > 30 THEN 0
    ELSE a[1] \div (2^(0 - a[2]))

\* the float32 nearest to 0.299, 0.587 and 0.114
W299 == <<10032775, -25>>
W587 == <<9848226, -24>>
W114 == <<15300821, -27>>

\* sqrt(0.299*R^2 + 0.587*G^2 + 0.114*B^2) / 255 on float32
Brightness32(c) ==
    LET r == FromInt(c[1])
        g == FromInt(c[2])
        b == FromInt(c[3])
        s == Add32(Add32(Mul32(W299, Mul32(r, r)), Mul32(W587, Mul32(g, g))),
                   Mul32(W114, Mul32(b, b)))
    IN  Div32(Sqrt32(s), 255)

(***************************************************************************)
(* numpy reductions and reshaping                                          *)
(***************************************************************************)

\* acc + a[i] + a[i+1] + ... + a[n], added one after the other
RECURSIVE AddFrom(_, _, _)
AddFrom(acc, a, i) ==
    IF i > Len(a) \/ acc[1] < 0 THEN acc
    ELSE AddFrom(Add32(acc, a[i]), a, i + 1)

\* a[j] + a[j+8] + a[j+16] + ... over the indices below lim
RECURSIVE Lane(_, _, _, _)
Lane(acc, a, j, lim) ==
    IF j > lim \/ acc[1] < 0 THEN acc
    ELSE Lane(Add32(acc, a[j]), a, j + 8, lim)

\* the sum of one contiguous run of float32 as numpy's add.reduce forms it:
\* in order below 8 elements, in 8 lanes up to 128, halved above
RECURSIVE PairwiseSum(_)
PairwiseSum(a) ==
    LET n == Len(a) IN
    IF n < 8 THEN AddFrom(Zero32, a, 1)
    ELSE IF n <= 128 THEN
        LET lim == n - (n % 8)
            r == [j \in 1..8 |-> Lane(a[j], a, j + 8, lim)]
            res == Add32(Add32(Add32(r[1], r[2]), Add32(r[3], r[4])),
                         Add32(Add32(r[5], r[6]), Add32(r[7], r[8])))
        IN  AddFrom(res, a, lim + 1)
    ELSE
        LET h == n \div 2
            n2 == h - (h % 8)
        IN  Add32(PairwiseSum(SubSeq(a, 1, n2)), PairwiseSum(SubSeq(a, n2 + 1, n)))

\* acc + PairwiseSum(rows[i]) + ... + PairwiseSum(rows[n])
RECURSIVE AddRows(_, _, _)
AddRows(acc, rows, i) ==
    IF i > Len(rows) \/ acc[1] < 0 THEN acc
    ELSE AddRows(Add32(acc, PairwiseSum(rows[i])), rows, i + 1)

\* the mean of one block: rows is the block, a sequence of char_h runs of
\* char_w values
MeanBlock(rows) ==
    LET count == Len(rows) * Len(rows[1])
    IN  Div32(AddRows(Zero32, rows, 1), count)

Min(a, b) == IF a <= b THEN a ELSE b

\* arr[:nrows, :ncols] of a 2-D array (a sequence of rows of equal length);
\* a slice that reaches past the array ends where the array ends
Slice2(arr, nrows, ncols) ==
    [y \in 1..Min(nrows, Len(arr)) |-> SubSeq(arr[y], 1, Min(ncols, Len(arr[y])))]

\* the elements of a 2-D array in C order
Ravel(arr) ==
    LET ncols == IF Len(arr) = 0 THEN 0 ELSE Len(arr[1])
    IN  [k \in 1..(Len(arr) * ncols) |->
            arr[((k - 1) \div ncols) + 1][((k - 1) % ncols) + 1]]

\* a variant that lays the blocks out as (d1, d3, d2, d4)
Reshape4BlockMajor(flat, d1, d2, d3, d4) ==
    [a \in 1..d1 |-> [i \in 1..d2 |-> [b \in 1..d3 |-> [j \in 1..d4 |->
        flat[(((a - 1) * d3 + (b - 1)) * d2 + (i - 1)) * d4 + j]]]]]

\* reshape(d1, d2, d3, d4) of a C-ordered flat array
Reshape4(flat, d1, d2, d3, d4) ==
    [a \in 1..d1 |-> [i \in 1..d2 |-> [b \in 1..d3 |-> [j \in 1..d4 |->
        flat[(((a - 1) * d2 + (i - 1)) * d3 + (b - 1)) * d4 + j]]]]]

\* blocks.mean(axis=(1, 3)): for block (a, b) the runs blocks[a][i][b], i over
\* axis 1, each summed along axis 3
MeanAxes13(blocks, h_blocks, char_h, w_blocks, char_w) ==
    [a \in 1..h_blocks |-> [b \in 1..w_blocks |->
        MeanBlock([i \in 1..char_h |-> blocks[a][i][b]])]]

(***************************************************************************)
(* The program                                                             *)
(***************************************************************************)

\* Python's None, as an argument value
None == "None"

\* the two built-in palettes, as sequences of code points
AsciiRamp == <<46, 44, 59, 33, 118, 108, 76, 70, 69, 36>>
BrailleRamp ==
    <<10241, 10263, 10243, 10254, 10249, 10270, 10265, 10277, 10257, 10279,
      10251, 10298, 10267, 10285, 10259, 10301, 10250, 10293, 10266, 10272,
      10245, 10300, 10247, 10290, 10253, 10242, 10269, 10274, 10261, 10246,
      10255, 10276, 10271>>

_get_charset(use_braille) == IF use_braille THEN BrailleRamp ELSE AsciiRamp

\* the file system and the font loader the run meets: "font.ttf" is a font
\* file, "corrupt.ttf" a file FreeType rejects, "missing.ttf" no file
FontPaths == {None, "missing.ttf", "corrupt.ttf", "font.ttf"}
isfile(path) == path \in {"corrupt.ttf", "font.ttf"}

DefaultFont == [kind |-> "default", path |-> None, size |-> 0]

\* ImageFont.truetype: the font, or OSError
truetype(font_path, font_size) ==
    IF font_path = "font.ttf"
    THEN [raised |-> "", font |-> [kind |-> "truetype", path |-> font_path,
                                   size |-> font_size]]
    ELSE [raised |-> "OSError", font |-> DefaultFont]

FontError(font_path) ==
    [what |-> "Couldn't open font", path |-> font_path, text |-> <<>>]

\* a variant that lets the loader's OSError escape
_load_font_strict(font_path, font_size) ==
    LET try == truetype(font_path, font_size)
        tried == font_path # None /\ isfile(font_path)
    IN  IF tried
        THEN [raised |-> try.raised, font |-> try.font, printed |-> <<>>]
        ELSE [raised |-> "", font |-> DefaultFont, printed |-> <<>>]

_load_font(font_path, font_size) ==
    LET try == truetype(font_path, font_size)
        tried == font_path # None /\ isfile(font_path)
    IN  IF tried /\ try.raised = ""
        THEN [raised |-> "", font |-> try.font, printed |-> <<>>]
        ELSE [raised |-> "",
              font |-> DefaultFont,
              printed |-> IF tried THEN <<FontError(font_path)>> ELSE <<>>]

\* the pixel values the images of the model are made of
Black == <<0, 0, 0>>
White == <<255, 255, 255>>
Gray(g) == <<g, g, g>>
PixelColours == {Black, White, <<255, 0, 0>>}
ManyColours ==
    {<<r, g, b>> : r \in {0, 255}, g \in {0, 255}, b \in {0, 255}}
    \cup {Gray(g) : g \in {1, 28, 29, 85, 128, 170, 254}}
    \cup {<<12, 200, 77>>, <<254, 255, 255>>}
Colours == {Gray(g) : g \in 0..255} \cup PixelColours \cup ManyColours

\* the brightness of each of them, computed once
BrightnessOf == [c \in Colours |-> Brightness32(c)]

\* np.asarray(image).astype(float32) and the brightness formula, per pixel
_get_brightness_array(image) ==
    [y \in 1..image.size[2] |-> [x \in 1..image.size[1] |->
        BrightnessOf[image.px[y][x]]]]

Max(a, b) == IF a >= b THEN a ELSE b

\* bbox is font.getbbox(characters[-1]) = <<left, top, right, bottom>>
_char_cell(bbox) == <<Max(1, bbox[3] - bbox[1]), Max(1, bbox[4] - bbox[2])>>

\* variants of the quantizer with a slip in them: the palette length used
\* as the scale, rounding to the nearest index, and a scale of the palette
\* length wrapped around
QuantizeByLength(avg, n) == Trunc32(Mul32(avg, FromInt(n)))
QuantizeNearest(avg, n) ==
    Trunc32(Add32(Mul32(avg, FromInt(n - 1)), <<Two23, -24>>))
QuantizeWrapped(avg, n) == Trunc32(Mul32(avg, FromInt(n))) % n

\* (avg_brightness * (len(characters) - 1)).astype(int32), for one block
Quantize(avg, n) == Trunc32(Mul32(avg, FromInt(n - 1)))

\* numpy indexing of a 1-D array of n elements: does index i exist
InRange(i, n) == 0 - n <= i /\ i < n
Take(chars, i) == IF i >= 0 THEN chars[i + 1] ELSE chars[Len(chars) + i + 1]

\* Python truth of an optional path: None and "" are false
Truthy(path) == path # None /\ path # ""

\* "\n".join(lines)
RECURSIVE Join(_)
Join(lines) ==
    IF Len(lines) = 0 THEN <<>>
    ELSE IF Len(lines) = 1 THEN lines[1]
    ELSE lines[1] \o <<10>> \o Join(Tail(lines))

\* _render_colored_ascii: what it raised, the size of the downsampled source,
\* the size of the canvas, the glyphs drawn in order (each with the place it
\* is drawn at and the pixel of the downsampled source that colours it) and
\* the size of the saved image
_render_colored_ascii(ascii_lines, char_w, char_h, image) ==
    LET rows == Len(ascii_lines)
        cols == Len(ascii_lines[1])
        none == [raised |-> "", resized |-> <<>>, canvas |-> <<>>,
                 drawn |-> <<>>, saved |-> <<>>]
    IN  IF rows = 0 THEN [none EXCEPT !.raised = "IndexError"]
        ELSE IF cols < 1 \/ rows < 1 THEN [none EXCEPT !.raised = "ValueError"]
        ELSE [raised |-> "",
              resized |-> <<cols, rows>>,
              canvas |-> <<char_w * cols, char_h * rows>>,
              drawn |-> [k \in 1..(rows * cols) |->
                  LET y == (k - 1) \div cols
                      xx == (k - 1) % cols
                  IN  [at |-> <<xx * char_w, y * char_h>>,
                       ch |-> ascii_lines[y + 1][xx + 1],
                       color |-> <<y, xx>>]],
              saved |-> image.size]

\* a variant that counts a partial block too
BlockCountCeil(extent, cell) == (extent + cell - 1) \div cell

\* the block counts of lines 58-59
BlockCount(extent, cell) == extent \div cell

\* lines 67-69: the glyph of every block, looked up in the palette; an index
\* outside the palette raises IndexError
Lines(base, avg_brightness, idx, characters) ==
    IF \E a \in 1..base.h_blocks : \E b \in 1..base.w_blocks :
            ~InRange(idx[a][b], Len(characters))
    THEN [base EXCEPT !.raised = "IndexError",
                      !.avg_brightness = avg_brightness, !.idx = idx]
    ELSE [base EXCEPT
            !.avg_brightness = avg_brightness,
            !.idx = idx,
            !.ascii_lines = [a \in 1..base.h_blocks |->
                                [b \in 1..base.w_blocks |->
                                    Take(characters, idx[a][b])]]]

\* line 66: the palette index of every block
Indices(base, avg_brightness, characters) ==
    Lines(base, avg_brightness,
          [a \in 1..base.h_blocks |-> [b \in 1..base.w_blocks |->
              Quantize(avg_brightness[a][b], Len(characters))]],
          characters)

\* lines 63-64: the reshape, which raises ValueError unless the sliced array
\* has exactly h_blocks * char_h * w_blocks * char_w elements, and the mean
\* of every block
Blocks(base, flat, characters) ==
    IF Len(flat) # base.h_blocks * base.char_h * base.w_blocks * base.char_w
    THEN [base EXCEPT !.raised = "ValueError"]
    ELSE Indices(base,
                 MeanAxes13(Reshape4(flat, base.h_blocks, base.char_h,
                                     base.w_blocks, base.char_w),
                            base.h_blocks, base.char_h,
                            base.w_blocks, base.char_w),
                 characters)

\* lines 58-61: the block counts and the slice of the brightness array
Sliced(base, image, characters) ==
    Blocks(base,
           Ravel(Slice2(_get_brightness_array(image),
                        base.h_blocks * base.char_h,
                        base.w_blocks * base.char_w)),
           characters)

\* lines 54-59: the cell and the block counts
Cells(image, cell) ==
    [raised |-> "", char_w |-> cell[1], char_h |-> cell[2],
     h_blocks |-> BlockCount(image.size[2], cell[2]),
     w_blocks |-> BlockCount(image.size[1], cell[1]),
     avg_brightness |-> <<>>, idx |-> <<>>, ascii_lines |-> <<>>]

\* convert_to_ascii_by_blocks up to the text grid (lines 54-69)
Grid(image, bbox, characters) ==
    Sliced(Cells(image, _char_cell(bbox)), image, characters)

VARIABLES
    pc,           \* where main() is: "main", "constructed", "done", "raised"
    args,         \* the command line and what the run finds: the decoded
                  \* image and the bounding box the font gives the sample glyph
    characters,   \* self.characters
    font,         \* self.font
    stdout,       \* what was printed, in order
    text_file,    \* <<>>, or <<the text written to output_text_path>>
    image_file,   \* <<>>, or <<the size of the image saved to output_image_path>>
    grid,         \* <<>>, or <<the locals of convert_to_ascii_by_blocks>>
    render        \* <<>>, or <<what _render_colored_ascii did>>

vars == <<pc, args, characters, font, stdout, text_file, image_file, grid, render>>

NoFont == [kind |-> "unset", path |-> None, size |-> 0]

\* ImageToASCII.__init__
Construct ==
    /\ pc = "main"
    /\ \E lf \in {_load_font(args.font_path, args.font_size)} :
        /\ characters' = _get_charset(args.use_braille)
        /\ font' = IF lf.raised = "" THEN lf.font ELSE font
        /\ stdout' = stdout \o lf.printed
        /\ pc' = IF lf.raised = "" THEN "constructed" ELSE "raised"
    /\ UNCHANGED <<args, text_file, image_file, grid, render>>

\* lines 71-79 of convert_to_ascii_by_blocks for the text `text` of the grid
\* and the outcome r of _render_colored_ascii, were it called
Dispatch(text, r, wants_text, wants_image) ==
    [raised |-> IF wants_image THEN r.raised ELSE "",
     text_file |-> IF wants_text THEN <<text>> ELSE <<>>,
     render |-> IF wants_image THEN <<r>> ELSE <<>>,
     image_file |-> IF wants_image /\ r.raised = "" THEN <<r.saved>> ELSE <<>>,
     printed |-> IF ~wants_text /\ ~wants_image
                 THEN <<[what |-> "ascii", path |-> None, text |-> text]>>
                 ELSE <<>>]

\* lines 71-79 of convert_to_ascii_by_blocks: the text file, the rendered
\* image and the fallback to standard output, for the text grid g
Outputs(g, image, output_text_path, output_image_path) ==
    Dispatch(Join(g.ascii_lines),
             _render_colored_ascii(g.ascii_lines, g.char_w, g.char_h, image),
             Truthy(output_text_path), Truthy(output_image_path))

\* what one call of convert_to_ascii_by_blocks does with the text grid g
Finish(g, a) ==
    IF g.raised # ""
    THEN [grid |-> g,
          out |-> [raised |-> g.raised, text_file |-> <<>>, render |-> <<>>,
                   image_file |-> <<>>, printed |-> <<>>]]
    ELSE [grid |-> g,
          out |-> Outputs(g, a.image, a.output_text_path, a.output_image_path)]

\* what one call of convert_to_ascii_by_blocks does
Converted(a, chars) == Finish(Grid(a.image, a.bbox, chars), a)

\* convert_to_ascii_by_blocks
Convert ==
    /\ pc = "constructed"
    /\ \E c \in {Converted(args, characters)} :
        /\ grid' = <<c.grid>>
        /\ text_file' = c.out.text_file
        /\ render' = c.out.render
        /\ image_file' = c.out.image_file
        /\ stdout' = stdout \o c.out.printed
        /\ pc' = IF c.out.raised = "" THEN "done" ELSE "raised"
    /\ UNCHANGED <<args, characters, font>>

Next == Construct \/ Convert

(***************************************************************************)
(* The runs checked.  Every run starts in main() with its arguments parsed *)
(* and the image decoded; the three specifications differ in the inputs    *)
(* they draw.                                                              *)
(***************************************************************************)
MaxW == 3
MaxH == 3
MaxBox == 2
MaxPixels == 5
MaxCell == 2
MaxSolid == 7
ScenarioSide == 100

SolidImage(w, h, c) ==
    [size |-> <<w, h>>, px |-> [y \in 1..h |-> [xx \in 1..w |-> c]]]

\* the default of --font-size
DefaultFontSize == 6

Start(a) ==
    /\ pc = "main"
    /\ args = a
    /\ characters = <<>>
    /\ font = NoFont
    /\ stdout = <<>>
    /\ text_file = <<>>
    /\ image_file = <<>>
    /\ grid = <<>>
    /\ render = <<>>

\* every font path and output path, small solid images, every glyph box
\* from empty to larger than the image
Init ==
    \E w \in 1..MaxW, h \in 1..MaxH, c \in {Gray(128)},
       o \in {0, 1}, bw \in 0..MaxBox, bh \in 0..MaxBox,
       fp \in FontPaths, otp \in {None, "", "out.txt"},
       oip \in {None, "", "out.png"}, ub \in BOOLEAN :
        Start([font_path |-> fp, font_size |-> DefaultFontSize,
               output_text_path |-> otp, output_image_path |-> oip,
               use_braille |-> ub, image |-> SolidImage(w, h, c),
               bbox |-> <<o, o, o + bw, o + bh>>])

Spec == Init /\ [][Next]_vars

\* images of up to MaxPixels pixels, every pixel drawn from PixelColours,
\* and images of one or two pixels drawn from ManyColours

Shapes == {s \in (1..MaxPixels) \X (1..MaxPixels) : s[1] * s[2] <= MaxPixels}

InitPixels ==
    \E ub \in BOOLEAN, bw \in 1..MaxCell, bh \in 1..MaxCell :
        \/ \E s \in Shapes :
             \E px \in [1..s[2] -> [1..s[1] -> PixelColours]] :
                Start([font_path |-> None, font_size |-> DefaultFontSize,
                       output_text_path |-> None, output_image_path |-> None,
                       use_braille |-> ub, image |-> [size |-> s, px |-> px],
                       bbox |-> <<0, 0, bw, bh>>])
        \/ \E w \in 1..2 :
             \E row \in [1..w -> ManyColours] :
                Start([font_path |-> None, font_size |-> DefaultFontSize,
                       output_text_path |-> None, output_image_path |-> None,
                       use_braille |-> ub,
                       image |-> [size |-> <<w, 1>>, px |-> <<row>>],
                       bbox |-> <<0, 0, bw, bh>>])

SpecPixels == InitPixels /\ [][Next]_vars

\* solid gray images: every gray level on a single pixel, the levels of
\* SolidGrays on every image and cell of up to MaxSolid pixels a side, and
\* the mid-gray square of ScenarioSide pixels a side under the ASCII palette
SolidGrays == {0, 85, 128, 170, 255}

InitSolid ==
    \E ub \in BOOLEAN :
        \/ \E g \in 0..255 :
                Start([font_path |-> None, font_size |-> DefaultFontSize,
                       output_text_path |-> None, output_image_path |-> None,
                       use_braille |-> ub, image |-> SolidImage(1, 1, Gray(g)),
                       bbox |-> <<0, 0, 1, 1>>])
        \/ \E g \in SolidGrays, w \in 1..MaxSolid, h \in 1..MaxSolid,
              bw \in 1..MaxSolid, bh \in 1..MaxSolid :
                Start([font_path |-> None, font_size |-> DefaultFontSize,
                       output_text_path |-> None, output_image_path |-> None,
                       use_braille |-> ub, image |-> SolidImage(w, h, Gray(g)),
                       bbox |-> <<0, 0, bw, bh>>])
        \/ \E bw \in {1, MaxSolid - 1}, bh \in {MaxSolid - 1, MaxSolid + 4} :
                /\ ~ub
                /\ Start([font_path |-> None, font_size |-> DefaultFontSize,
                          output_text_path |-> None, output_image_path |-> None,
                          use_braille |-> ub,
                          image |-> SolidImage(ScenarioSide, ScenarioSide, Gray(128)),
                          bbox |-> <<0, 0, bw, bh>>])

SpecSolid == InitSolid /\ [][Next]_vars

(***************************************************************************)
(* Properties                                                              *)
(***************************************************************************)
Ended == pc \in {"done", "raised"}
HasGrid == grid # <<>>
Palette == {characters[i] : i \in 1..Len(characters)}
BlocksOf(g) == (1..g.h_blocks) \X (1..g.w_blocks)
Width == args.image.size[1]
Height == args.image.size[2]

\* C1: every palette index computed for a block lies in 0..N-1, N the length
\* of the palette, and every character of the text grid is a character of
\* the palette, in both palette modes
C1_IndicesInPalette ==
    HasGrid =>
        LET g == grid[1]
            n == Len(characters)
        IN  /\ g.raised = ""
            /\ Len(g.idx) = g.h_blocks
            /\ Len(g.ascii_lines) = g.h_blocks
            /\ \A p \in BlocksOf(g) :
                /\ g.idx[p[1]][p[2]] \in 0..(n - 1)
                /\ g.ascii_lines[p[1]][p[2]] \in Palette

\* a Braille grid that holds both the darkest and the lightest glyph
C1_Witness ==
    /\ HasGrid
    /\ args.use_braille
    /\ \E p, q \in BlocksOf(grid[1]) :
        /\ grid[1].idx[p[1]][p[2]] = 0
        /\ grid[1].idx[q[1]][q[2]] = Len(characters) - 1
        /\ grid[1].ascii_lines[q[1]][q[2]] = 10271

\* C2: the text grid has floor(height / char_h) rows of floor(width / char_w)
\* characters each, for every image and cell size, also when the image is
\* smaller than a cell
C2_GridShape ==
    HasGrid =>
        LET g == grid[1] IN
            /\ g.raised = ""
            /\ g.char_w >= 1 /\ g.char_h >= 1
            /\ Len(g.ascii_lines) = Height \div g.char_h
            /\ \A a \in 1..Len(g.ascii_lines) :
                Len(g.ascii_lines[a]) = Width \div g.char_w

\* rows of no characters: the image is lower than a cell is wide, not lower
\* than it is high, and pixels are left over at the bottom
C2_Witness ==
    /\ HasGrid
    /\ Len(grid[1].ascii_lines) >= 1
    /\ Len(grid[1].ascii_lines[1]) = 0
    /\ Height % grid[1].char_h # 0

\* floor(avg * k) for a float32 avg and a natural k, in exact arithmetic
ExactFloor(avg, k) ==
    IF avg[1] = 0 THEN 0
    ELSE IF avg[2] >= 0 THEN avg[1] * k * 2^(avg[2])
    ELSE IF 0 - avg[2] > 30 THEN 0
    ELSE (avg[1] * k) \div (2^(0 - avg[2]))

Clamp(v, lo, hi) == IF v < lo THEN lo ELSE IF v > hi THEN hi ELSE v

\* C3: the index of every block is floor(avg_brightness * (N - 1)) clamped to
\* 0..N-1, avg_brightness the mean brightness of the block, and the glyph
\* written for the block is the palette character at that index
C3_IndexIsFloor ==
    HasGrid =>
        LET g == grid[1]
            n == Len(characters)
        IN  /\ g.raised = ""
            /\ \A p \in BlocksOf(g) :
                /\ g.idx[p[1]][p[2]] =
                     Clamp(ExactFloor(g.avg_brightness[p[1]][p[2]], n - 1), 0, n - 1)
                /\ g.ascii_lines[p[1]][p[2]] = characters[g.idx[p[1]][p[2]] + 1]

\* a block of mixed pixels whose scaled brightness is no whole number and
\* whose fraction is at least a half
C3_Witness ==
    /\ HasGrid
    /\ \E p \in BlocksOf(grid[1]) :
        LET avg == grid[1].avg_brightness[p[1]][p[2]]
            n == Len(characters)
        IN  /\ grid[1].char_w * grid[1].char_h >= 2
            /\ grid[1].idx[p[1]][p[2]] \in 1..(n - 2)
            /\ ExactFloor(avg, 2 * (n - 1)) = 2 * grid[1].idx[p[1]][p[2]] + 1

\* the gray level of a solid gray image
SolidLevel == args.image.px[1][1][1]
IsSolidGray ==
    \A y \in 1..Height : \A xx \in 1..Width :
        args.image.px[y][xx] = Gray(SolidLevel)

\* C4: a solid gray image (g, g, g) gives the index floor(g * (N - 1) / 255)
\* for every block: 0 for black, N - 1 for white, 4 for mid-gray 128 and the
\* ASCII palette
C4_SolidGrayIndex ==
    (HasGrid /\ IsSolidGray) =>
        LET g == grid[1]
            n == Len(characters)
        IN  /\ g.raised = ""
            /\ \A p \in BlocksOf(g) :
                g.idx[p[1]][p[2]] = (SolidLevel * (n - 1)) \div 255

\* what of C4 the program does do: black, white and mid-gray 128
C4_BlackWhiteMidGray ==
    (HasGrid /\ IsSolidGray /\ SolidLevel \in {0, 128, 255}) =>
        LET g == grid[1]
            n == Len(characters)
        IN  /\ g.raised = ""
            /\ \A p \in BlocksOf(g) :
                /\ g.idx[p[1]][p[2]] = (SolidLevel * (n - 1)) \div 255
                /\ SolidLevel = 0 => g.idx[p[1]][p[2]] = 0
                /\ SolidLevel = 255 => g.idx[p[1]][p[2]] = n - 1
                /\ (SolidLevel = 128 /\ n = 10) => g.idx[p[1]][p[2]] = 4

TextPrinted == \E i \in 1..Len(stdout) : stdout[i].what = "ascii"

\* C5: at the end of a run the text grid was printed iff neither output path
\* was configured, the text file exists iff a text output path was
\* configured, and the image file exists iff an image output path was
\* configured
C5_OutputDispatch ==
    (Ended /\ HasGrid) =>
        /\ TextPrinted <=> (~Truthy(args.output_text_path)
                            /\ ~Truthy(args.output_image_path))
        /\ text_file # <<>> <=> Truthy(args.output_text_path)
        /\ image_file # <<>> <=> Truthy(args.output_image_path)

\* C6: whatever the font path, once the object is constructed it holds a
\* usable font, the requested one when the path is a file the loader
\* accepts and the built-in default otherwise, and the run goes on through
\* the conversion: it never ends before the text grid is computed
C6_FontLoadNeverFatal ==
    pc # "main" =>
        /\ font.kind \in {"truetype", "default"}
        /\ font.kind = "truetype" <=>
              (args.font_path # None /\ isfile(args.font_path)
               /\ truetype(args.font_path, args.font_size).raised = "")
        /\ font.kind = "truetype" =>
              font = truetype(args.font_path, args.font_size).font
        /\ font.kind = "default" => font = DefaultFont
        /\ Ended => (HasGrid /\ grid[1].raised = "")

\* a run given a file the loader rejects, ended with its output written
C6_Witness ==
    /\ pc = "done"
    /\ args.font_path = "corrupt.ttf"
    /\ font = DefaultFont
    /\ text_file # <<>>

FontErrorPrinted ==
    \E i \in 1..Len(stdout) : stdout[i].what = "Couldn't open font"

\* C7: whenever a font path is set and the font could not be loaded from it,
\* the run has printed a message about the font
C7_FontFailureReported ==
    (pc # "main" /\ args.font_path # None /\ font.kind # "truetype") =>
        FontErrorPrinted

\* C8: whenever an image output path is configured, the source is downsampled
\* to (cols, rows), the canvas has the size (char_w * cols, char_h * rows),
\* one glyph is drawn per grid position at (x * char_w, y * char_h), and the
\* saved image has the size of the source, also for a grid of no rows or no
\* columns
C8_RenderGeometry ==
    (Ended /\ HasGrid /\ Truthy(args.output_image_path)) =>
        LET g == grid[1]
            cols == Width \div g.char_w
            rows == Height \div g.char_h
        IN  /\ render # <<>>
            /\ render[1].raised = ""
            /\ render[1].resized = <<cols, rows>>
            /\ render[1].canvas = <<g.char_w * cols, g.char_h * rows>>
            /\ Len(render[1].drawn) = rows * cols
            /\ \A y \in 0..(rows - 1) : \A xx \in 0..(cols - 1) :
                \E k \in 1..Len(render[1].drawn) :
                    /\ render[1].drawn[k].at = <<xx * g.char_w, y * g.char_h>>
                    /\ render[1].drawn[k].ch = g.ascii_lines[y + 1][xx + 1]
            /\ image_file = <<args.image.size>>

\* what of C8 the program does do: the same for a grid that has a row and
\* a column
C8_RenderGeometryNonEmpty ==
    (Width \div Max(1, args.bbox[3] - args.bbox[1]) >= 1
     /\ Height \div Max(1, args.bbox[4] - args.bbox[2]) >= 1) => C8_RenderGeometry

\* the brightness of the pixels of block (a, b), read from the image: rows
\* (a-1)*char_h+1 .. a*char_h and columns (b-1)*char_w+1 .. b*char_w, counted
\* from 1
Footprint(a, b, char_w, char_h) ==
    [i \in 1..char_h |-> [j \in 1..char_w |->
        BrightnessOf[args.image.px[(a - 1) * char_h + i][(b - 1) * char_w + j]]]]

\* where each pixel goes: the slicing and reshaping of lines 61-63 applied to
\* the array that holds at (y, x) the place <<y, x>> itself
Places(g) ==
    Reshape4(Ravel(Slice2([y \in 1..Height |-> [xx \in 1..Width |-> <<y, xx>>]],
                          g.h_blocks * g.char_h, g.w_blocks * g.char_w)),
             g.h_blocks, g.char_h, g.w_blocks, g.char_w)

\* the blocks, and the positions in them, that hold the pixel at (y, x)
Owners(g, y, xx) ==
    {q \in BlocksOf(g) \X ((1..g.char_h) \X (1..g.char_w)) :
        Places(g)[q[1][1]][q[2][1]][q[1][2]][q[2][2]] = <<y, xx>>}

\* C9: the value of block (r, c) is the mean of exactly the char_w * char_h
\* pixels of rows r*char_h .. (r+1)*char_h - 1 and columns c*char_w ..
\* (c+1)*char_w - 1 (counted from 0); a pixel of a row from rows * char_h on
\* or a column from cols * char_w on is in no block, and every other pixel
\* is in exactly one
C9_BlockIsMeanOfFootprint ==
    HasGrid =>
        LET g == grid[1] IN
            /\ g.raised = ""
            /\ g.h_blocks * g.char_h <= Height
            /\ g.w_blocks * g.char_w <= Width
            /\ \A p \in BlocksOf(g) :
                g.avg_brightness[p[1]][p[2]] =
                    MeanBlock(Footprint(p[1], p[2], g.char_w, g.char_h))
            /\ \A y \in 1..Height : \A xx \in 1..Width :
                Owners(g, y, xx) =
                    IF y <= g.h_blocks * g.char_h /\ xx <= g.w_blocks * g.char_w
                    THEN {<<<<((y - 1) \div g.char_h) + 1, ((xx - 1) \div g.char_w) + 1>>,
                            <<((y - 1) % g.char_h) + 1, ((xx - 1) % g.char_w) + 1>>>>}
                    ELSE {}

\* two blocks side by side, each two pixels high and of two different
\* colours, with different means
C9_Witness ==
    /\ HasGrid
    /\ grid[1].char_h = 2
    /\ grid[1].w_blocks = 2
    /\ grid[1].h_blocks = 1
    /\ args.image.px[1][1] # args.image.px[2][1]
    /\ args.image.px[1][1] # args.image.px[1][2]
    /\ grid[1].avg_brightness[1][1] # grid[1].avg_brightness[1][2]

\* C10: of two blocks of one grid, the one of no greater mean brightness has
\* no greater palette index
C10_QuantizeMonotone ==
    HasGrid =>
        LET g == grid[1] IN
            \A p, q \in BlocksOf(g) :
                Leq32(g.avg_brightness[p[1]][p[2]], g.avg_brightness[q[1]][q[2]])
                    => g.idx[p[1]][p[2]] <= g.idx[q[1]][q[2]]

\* a white block beside a darker block of a lower index
C10_Witness ==
    /\ HasGrid
    /\ \E p, q \in BlocksOf(grid[1]) :
        /\ grid[1].avg_brightness[q[1]][q[2]] = FromInt(1)
        /\ grid[1].avg_brightness[p[1]][p[2]] # FromInt(1)
        /\ grid[1].avg_brightness[p[1]][p[2]] # Zero32
        /\ grid[1].idx[p[1]][p[2]] < grid[1].idx[q[1]][q[2]]
====
